---- MODULE Spec2Model ----
(***************************************************************************)
(* Model of scan_files_head.py: per-folder top-K selection by modification *)
(* time, CSV encoding detection with fallback, first-N-rows extraction,    *)
(* and the report loop of scan_and_dump with its counters and handles.     *)
(*                                                                         *)
(* Python strings are modelled as sequences of characters (one-character   *)
(* TLA+ strings, or one token for a fixed message), so that join and       *)
(* rstrip are computed and not assumed.  A call that may raise returns a   *)
(* record [raised, val]; a try/except is an IF on the raised field.        *)
(***************************************************************************)
EXTENDS Integers, Sequences, FiniteSets, TLC

VARIABLES
    settings,          \* rows of the "Settings" sheet (from row 2), the input of read_settings
    tqdmAvail,         \* module-level tqdm is not None
    xlrdAvail,         \* try_import_xlrd() succeeds
    roots_cfg,         \* read_settings: list of (path, limit, lines)
    global_lines_max,  \* read_settings: max lines over the roots
    pc,                \* position inside main / scan_and_dump
    rootIdx,           \* index of the root being walked in roots_cfg
    walk,              \* directories os.walk has still to yield for this root
    curDir,            \* directory being processed ("root" of the os.walk triple)
    items,             \* selected files of curDir still to process
    selected,          \* the items list of curDir right after sort and cut
    cur,               \* file being processed
    lines,             \* result of get_first_lines_for_file for cur
    out,               \* rows handed to writer.writerow, header first
    total_written,
    skipped,
    handled,           \* the files for which the loop body was entered, in order
    last,              \* how the last handled file was extracted and counted
    bar,               \* progress handle: state "none", "open" or "closed", total, n
    f,                 \* output stream: "unopened", "open", "closed"
    faults,            \* unexpected exceptions raised so far by the environment
    call,              \* a single call of one of the extraction functions
    ret                \* its result

vars == <<settings, tqdmAvail, xlrdAvail, roots_cfg, global_lines_max, pc,
          rootIdx, walk, curDir, items, selected, cur, lines, out,
          total_written, skipped, handled, last, bar, f, faults, call, ret>>

scanVars == <<settings, tqdmAvail, xlrdAvail, roots_cfg, global_lines_max, pc,
              rootIdx, walk, curDir, items, selected, cur, lines, out,
              total_written, skipped, handled, last, bar, f, faults>>

----------------------------------------------------------------------------
(* Bounds of the model *)

MaxSettingsRows == 2   \* rows of the settings sheet
MaxFaults == 2         \* unexpected exceptions the environment raises in one run
BigDirFiles == 101     \* files in the large folder of root "B"
MaxData == 4           \* bytes of a file prefix given to detect_encoding
MaxFileLines == 3      \* lines of a CSV file given to read_csv_first_lines
MaxSheetRows == 3      \* rows of the first sheet of a workbook
MaxN == 3              \* row cap n given to the extraction functions

(* Program constants *)

DEFAULT_MAX_FILES_PER_FOLDER == 100
DEFAULT_LINES_PER_FILE == 5
ALLOWED_EXTS == {".csv", ".xls", ".xlsx"}
SORT_BY == "modified"
SORT_DESC == TRUE

----------------------------------------------------------------------------
(* Generic helpers *)

Min(a, b) == IF a < b THEN a ELSE b
Max(a, b) == IF a > b THEN a ELSE b

Ok(v) == [raised |-> FALSE, val |-> v]
Raise == [raised |-> TRUE, val |-> <<>>]

SeqsUpTo(S, n) == UNION {[1..k -> S] : k \in 0..n}

StartsWith(data, prefix) ==
    Len(data) >= Len(prefix) /\ SubSeq(data, 1, Len(prefix)) = prefix

\* str.lower() on the suffixes and encoding names that occur in the model
Lower(s) ==
    CASE s = ".CSV" -> ".csv"
      [] s = ".Csv" -> ".csv"
      [] s = ".XLS" -> ".xls"
      [] s = ".XLSX" -> ".xlsx"
      [] s = ".Xlsx" -> ".xlsx"
      [] s = ".TXT" -> ".txt"
      [] s = "ASCII" -> "ascii"
      [] s = "Ascii" -> "ascii"
      [] s = "UTF-8" -> "utf-8"
      [] OTHER -> s

\* str.rstrip(): drop trailing whitespace characters
Whitespace == {" ", "\t", "\n", "\r"}

RECURSIVE rstrip(_)
rstrip(s) ==
    IF s = <<>> THEN <<>>
    ELSE IF s[Len(s)] \in Whitespace THEN rstrip(SubSeq(s, 1, Len(s) - 1))
    ELSE s

\* "\t".join(values)
RECURSIVE JoinTab(_)
JoinTab(values) ==
    IF values = <<>> THEN <<>>
    ELSE IF Len(values) = 1 THEN values[1]
    ELSE values[1] \o <<"\t">> \o JoinTab(Tail(values))

\* ["" for _ in range(n)]
EmptyStrings(n) == [i \in 1..Max(n, 0) |-> <<>>]

----------------------------------------------------------------------------
(* detect_encoding *)

NoneEnc == "None"

BOM_UTF8 == <<239, 187, 191>>
BOM_UTF32_LE == <<255, 254, 0, 0>>
BOM_UTF32_BE == <<0, 0, 254, 255>>
BOM_UTF16_LE == <<255, 254>>
BOM_UTF16_BE == <<254, 255>>

\* A statistical detector's answer: "raise" (library missing or failing),
\* NoneEnc (no guess), or an encoding name.
DetectorGuess(guess) ==
    IF guess = "raise" \/ guess = NoneEnc THEN NoneEnc
    ELSE IF Lower(guess) = "ascii" THEN "utf-8"
    ELSE guess

detect_encoding_mut_order(file, cn, cd) ==
    IF ~file.readable THEN NoneEnc
    ELSE IF StartsWith(file.data, BOM_UTF8) THEN "utf-8-sig"
    ELSE IF StartsWith(file.data, BOM_UTF16_LE) \/ StartsWith(file.data, BOM_UTF16_BE)
        THEN "utf-16"
    ELSE IF StartsWith(file.data, BOM_UTF32_LE) \/ StartsWith(file.data, BOM_UTF32_BE)
        THEN "utf-32"
    ELSE IF DetectorGuess(cn) # NoneEnc THEN DetectorGuess(cn)
    ELSE DetectorGuess(cd)

detect_encoding(file, cn, cd) ==
    IF ~file.readable THEN NoneEnc
    ELSE IF StartsWith(file.data, BOM_UTF8) THEN "utf-8-sig"
    ELSE IF StartsWith(file.data, BOM_UTF32_LE) \/ StartsWith(file.data, BOM_UTF32_BE)
        THEN "utf-32"
    ELSE IF StartsWith(file.data, BOM_UTF16_LE) \/ StartsWith(file.data, BOM_UTF16_BE)
        THEN "utf-16"
    ELSE IF DetectorGuess(cn) # NoneEnc THEN DetectorGuess(cn)
    ELSE DetectorGuess(cd)

----------------------------------------------------------------------------
(* read_csv_first_lines *)

\* Codecs open() knows; any other name raises LookupError.
KnownCodecs == {"utf-8-sig", "utf-8", "cp1251", "utf-16", "utf-32", "latin1"}

\* A file starts with one of the marks "utf8", "utf16le", "utf32le", or "none" ...
BomBytes(bom) ==
    CASE bom = "utf8" -> BOM_UTF8
      [] bom = "utf16le" -> BOM_UTF16_LE
      [] bom = "utf32le" -> BOM_UTF32_LE
      [] OTHER -> <<>>

\* ... and each of its lines is of one kind of byte content:
\*   ascii   bytes below 0x80
\*   utf8    a well-formed multi-byte UTF-8 sequence (D0 B0)
\*   cp1251  a lone byte E0: a letter in cp1251, ill-formed in UTF-8
\*   x98     a lone byte 98: undefined in cp1251, ill-formed in UTF-8
\*   utf16   UTF-16 code units one of whose bytes is 98 (U+0498)
\*   utf32   UTF-32 code units
\* Strict decoding of the bytes of a line kind by a codec.
Decodes(enc, kind) ==
    CASE enc = "latin1" -> TRUE
      [] enc = "cp1251" -> kind \in {"ascii", "utf8", "cp1251", "utf32"}
      [] enc \in {"utf-8", "utf-8-sig"} -> kind \in {"ascii", "utf8"}
      [] enc = "utf-16" -> kind \in {"utf16", "utf32"}
      [] enc = "utf-32" -> kind = "utf32"
      [] OTHER -> FALSE

\* Strict decoding of the mark at the start of the first line.
BomDecodes(enc, bom) ==
    CASE bom = "none" -> TRUE
      [] enc \in {"latin1", "cp1251"} -> TRUE
      [] enc \in {"utf-8", "utf-8-sig"} -> bom = "utf8"
      [] enc = "utf-16" -> bom \in {"utf16le", "utf32le"}
      [] enc = "utf-32" -> bom = "utf32le"
      [] OTHER -> FALSE

LineDecodes(file, enc, i) ==
    /\ Decodes(enc, file.lines[i])
    /\ i = 1 => BomDecodes(enc, file.bom)

\* The text a line decodes to: its bytes read under the codec.
Decoded(enc, kind) == <<kind \o "/" \o enc>>

\* How many lines the loop  for i, line in enumerate(f): if i >= n: break
\* fetches from the file, and how many it appends.
LinesFetched(file, n) == Min(Max(n, 0) + 1, Len(file.lines))
LinesAppended(file, n) == Min(Max(n, 0), Len(file.lines))

\* One attempt: open(path, "r", encoding=..., errors=...) and the read loop.
ReadAttempt(file, enc, n, strict) ==
    IF ~file.readable \/ enc \notin KnownCodecs THEN Raise
    ELSE IF strict /\ \E i \in 1..LinesFetched(file, n) : ~LineDecodes(file, enc, i)
        THEN Raise
    ELSE Ok([i \in 1..LinesAppended(file, n) |-> Decoded(enc, file.lines[i])])

Candidates(enc) ==
    (IF enc # NoneEnc THEN <<enc>> ELSE <<>>) \o <<"utf-8-sig", "cp1251", "utf-16", "latin1">>

CSV_SENTINEL == <<"<csv unreadable>">>

\* Index of the first candidate whose attempt does not raise, 0 if none.
RECURSIVE FirstWinner(_, _, _, _)
FirstWinner(file, cands, n, i) ==
    IF i > Len(cands) THEN 0
    ELSE IF ~ReadAttempt(file, cands[i], n, TRUE).raised THEN i
    ELSE FirstWinner(file, cands, n, i + 1)

\* The bytes detect_encoding reads from a CSV file: its mark, if it has one.
Sniffed(file, cn, cd) ==
    detect_encoding([readable |-> file.readable, data |-> BomBytes(file.bom)], cn, cd)

read_csv_first_lines(file, n, cn, cd) ==
    LET cands == Candidates(Sniffed(file, cn, cd))
        w == FirstWinner(file, cands, n, 1)
        lossy == ReadAttempt(file, "cp1251", n, FALSE)
    IN  IF w > 0 THEN ReadAttempt(file, cands[w], n, TRUE)
        ELSE IF ~lossy.raised THEN lossy
        ELSE Ok(<<CSV_SENTINEL>>)

----------------------------------------------------------------------------
(* read_xlsx_first_rows, read_xls_first_rows, get_first_lines_for_file *)

\* A sheet cell: None, or a value with its str() text.
NoneCell == [isNone |-> TRUE, text |-> <<>>]
Cell(text) == [isNone |-> FALSE, text |-> text]

\* "" if v is None else str(v)
CellStr(v) == IF v.isNone THEN <<>> ELSE v.text

\* "\t".join(...).rstrip() of one sheet row
RowString(row) == rstrip(JoinTab([i \in 1..Len(row) |-> CellStr(row[i])]))

XLSX_SENTINEL == <<"<xlsx error>">>
XLS_SENTINEL == <<"<xls error>">>
XLRD_MISSING == <<"<xlrd not installed>">>
UNSUPPORTED == <<"<unsupported extension>">>

Sentinels == {CSV_SENTINEL, XLSX_SENTINEL, XLS_SENTINEL, XLRD_MISSING, UNSUPPORTED}

\* The body of the try block of read_xlsx_first_rows.
XlsxBody(file, n, openpyxlAvail) ==
    IF ~openpyxlAvail \/ ~file.opens THEN Raise
    ELSE LET k == Min(Max(n, 0), Len(file.rows))
             rowsOut == [i \in 1..k |-> RowString(file.rows[i])]
         IN  IF rowsOut = <<>> THEN Ok(EmptyStrings(n)) ELSE Ok(rowsOut)

read_xlsx_first_rows_mut_noexcept(file, n, openpyxlAvail) ==
    XlsxBody(file, n, openpyxlAvail)

read_xlsx_first_rows_mut_pad(file, n, openpyxlAvail) ==
    LET r == XlsxBody(file, n, openpyxlAvail)
    IN  IF r.raised THEN Ok(<<XLSX_SENTINEL>>)
        ELSE Ok(r.val \o EmptyStrings(n - Len(r.val)))

read_xlsx_first_rows(file, n, openpyxlAvail) ==
    LET r == XlsxBody(file, n, openpyxlAvail)
    IN  IF r.raised THEN Ok(<<XLSX_SENTINEL>>) ELSE r

\* The body of the try block of read_xls_first_rows.
XlsBody(file, n) ==
    IF ~file.opens THEN Raise
    ELSE LET rows == Min(n, Len(file.rows))
             rowsOut == [i \in 1..rows |-> RowString(file.rows[i])]
         IN  IF rows = 0 THEN Ok(EmptyStrings(n)) ELSE Ok(rowsOut)

read_xls_first_rows(file, n, xlrd) ==
    IF ~xlrd THEN Ok(<<XLRD_MISSING>>)
    ELSE LET r == XlsBody(file, n)
         IN  IF r.raised THEN Ok(<<XLS_SENTINEL>>) ELSE r

\* env: which optional libraries import, and what the detectors answer.
get_first_lines_for_file(file, n, env) ==
    LET ext == Lower(file.suffix)
    IN  IF ext = ".csv" THEN read_csv_first_lines(file, n, env.cn, env.cd)
        ELSE IF ext = ".xlsx" THEN read_xlsx_first_rows(file, n, env.openpyxl)
        ELSE IF ext = ".xls" THEN read_xls_first_rows(file, n, env.xlrd)
        ELSE Ok(<<UNSUPPORTED>>)

----------------------------------------------------------------------------
(* Values the scan does not use while a single function is being called,   *)
(* and the other way round.                                                *)

NoFile == [name |-> "", suffix |-> "", mtime |-> 0, statOk |-> FALSE,
           readable |-> FALSE, bom |-> "none", lines |-> <<>>,
           opens |-> FALSE, rows |-> <<>>]
NoCall == [fn |-> "none"]
Pending == [done |-> FALSE]
NoLast == [sentinel |-> FALSE, fault |-> FALSE, counted |-> "none"]
NoBar == [state |-> "none", total |-> 0, n |-> 0]

ScanIdle ==
    /\ settings = <<>>
    /\ tqdmAvail = FALSE
    /\ xlrdAvail = FALSE
    /\ roots_cfg = <<>>
    /\ global_lines_max = 0
    /\ pc = "idle"
    /\ rootIdx = 0
    /\ walk = <<>>
    /\ curDir = ""
    /\ items = <<>>
    /\ selected = <<>>
    /\ cur = NoFile
    /\ lines = <<>>
    /\ out = <<>>
    /\ total_written = 0
    /\ skipped = 0
    /\ handled = <<>>
    /\ last = NoLast
    /\ bar = NoBar
    /\ f = "unopened"
    /\ faults = 0

----------------------------------------------------------------------------
(* Cells of the settings sheet *)

\* A cell of the settings sheet: empty (None), a blank string, a string
\* that is no number, or a number given in tenths (25 is 2.5).
NoneCellS == [k |-> "none", v10 |-> 0]
BlankCellS == [k |-> "blank", v10 |-> 0]
BadCellS == [k |-> "bad", v10 |-> 0]
Num(v10) == [k |-> "num", v10 |-> v10]

\* int(float(str(cell).strip())): truncation towards zero
IntOfFloat(v10) == IF v10 >= 0 THEN v10 \div 10 ELSE -((-v10) \div 10)

\* str(path_cell).strip(), then expanduser/expandvars (no ~ or $ in the model)
StripPath(p) ==
    CASE p = " C " -> "C"
      [] p = "  " -> ""
      [] OTHER -> p

\* The value a limit or lines cell gives: the number if it parses and is
\* positive, else the default.
CellOrDefault(cell, default) ==
    IF cell.k \in {"none", "blank"} THEN default
    ELSE IF cell.k = "bad" THEN default
    ELSE IF IntOfFloat(cell.v10) > 0 THEN IntOfFloat(cell.v10)
    ELSE default

APP_DIR == "app"


\* A row of the sheet: (Path, MaxFilesPerFolder, LinesPerFile)
Row(p, limit, lns) == [path |-> p, limit |-> limit, lines |-> lns]

----------------------------------------------------------------------------
(* The directory trees on disk *)

File(name, suffix, mtime) ==
    [name |-> name, suffix |-> suffix, mtime |-> mtime, statOk |-> TRUE,
     readable |-> TRUE, bom |-> "none", lines |-> <<>>, opens |-> FALSE, rows |-> <<>>]

Csv(name, suffix, mtime, bom, lns) ==
    [File(name, suffix, mtime) EXCEPT !.bom = bom, !.lines = lns]

Sheet(name, suffix, mtime, opens, rows) ==
    [File(name, suffix, mtime) EXCEPT !.opens = opens, !.rows = rows]

RowA == <<Cell(<<"a">>), NoneCell>>
RowB == <<NoneCell, Cell(<<"b", " ">>)>>

Dir(files, subdirs, listable, symlink) ==
    [files |-> files, subdirs |-> subdirs, listable |-> listable, symlink |-> symlink]

BigDir ==
    [i \in 1..BigDirFiles |->
        Csv("f" \o ToString(i), ".csv", (i * 37) % 50, "none", <<"ascii">>)]

DirNames == {"A", "A/s", "A/locked", "A/link", "C", "B", APP_DIR}

FS ==
    [d \in DirNames |->
        CASE d = "A" ->
               Dir(<< Csv("a1", ".csv", 5, "none", <<"ascii", "utf8">>),
                      Csv("a2", ".CSV", 1, "utf8", <<"utf8", "cp1251">>),
                      Sheet("a3", ".xlsx", 9, TRUE, <<RowA, RowB, RowA, RowB>>),
                      File("a4", ".txt", 12),
                      [Sheet("a5", ".xls", 20, TRUE, <<RowA>>) EXCEPT !.statOk = FALSE] >>,
                   <<"A/s", "A/locked", "A/link">>, TRUE, FALSE)
          [] d = "A/s" ->
               Dir(<< Sheet("s1", ".xls", 3, TRUE, <<RowB>>),
                      Sheet("s2", ".Xlsx", 3, FALSE, <<>>) >>,
                   <<>>, TRUE, FALSE)
          [] d = "A/locked" ->
               Dir(<< Csv("l1", ".csv", 7, "none", <<"ascii">>) >>, <<>>, FALSE, FALSE)
          [] d = "A/link" ->
               Dir(<< Csv("k1", ".csv", 7, "none", <<"ascii">>) >>, <<>>, TRUE, TRUE)
          [] d = "C" ->
               Dir(<< Sheet("c1", ".xlsx", 4, TRUE, <<>>),
                      [Csv("c2", ".csv", 8, "none", <<"ascii">>) EXCEPT !.readable = FALSE],
                      File("c3", ".TXT", 9) >>,
                   <<>>, TRUE, FALSE)
          [] d = "B" -> Dir(BigDir, <<>>, TRUE, FALSE)
          [] OTHER ->
               Dir(<< Sheet("Settings_Scan_Files", ".xlsx", 2, TRUE, <<RowA, RowB>>),
                      File("scan_files_head", ".py", 1) >>,
                   <<>>, TRUE, FALSE)]

\* os.path.isdir
IsDir(p) == p \in DirNames

\* os.walk(base, topdown=True, onerror=None, followlinks=False): the
\* directories it yields, parents first; a directory that cannot be listed
\* yields nothing, a symbolic link to a directory is not entered.
RECURSIVE WalkList(_)
WalkList(paths) ==
    IF paths = <<>> THEN <<>>
    ELSE LET d == Head(paths)
             below == SelectSeq(FS[d].subdirs, LAMBDA x : ~FS[x].symlink)
         IN  (IF FS[d].listable THEN <<d>> \o WalkList(below) ELSE <<>>)
             \o WalkList(Tail(paths))

Walk(base) == WalkList(<<base>>)

----------------------------------------------------------------------------
(* read_settings *)

RowUsable(row) ==
    /\ row.path # "None"
    /\ StripPath(row.path) # ""
    /\ IsDir(StripPath(row.path))

LimitOf(row) == CellOrDefault(row.limit, DEFAULT_MAX_FILES_PER_FOLDER)
LinesOf(row) == CellOrDefault(row.lines, DEFAULT_LINES_PER_FILE)

RECURSIVE RootsOf(_)
RootsOf(rows) ==
    IF rows = <<>> THEN <<>>
    ELSE (IF RowUsable(Head(rows))
            THEN << [path |-> StripPath(Head(rows).path),
                     limit |-> LimitOf(Head(rows)),
                     lines |-> LinesOf(Head(rows))] >>
            ELSE <<>>)
         \o RootsOf(Tail(rows))

\* The running maximum kept in max_lines_global
RECURSIVE MaxLines(_, _)
MaxLines(roots, i) ==
    IF i > Len(roots) THEN 0
    ELSE Max(roots[i].lines, MaxLines(roots, i + 1))

read_settings(rows) ==
    LET roots == RootsOf(rows)
    IN  IF roots = <<>>
          THEN [roots |-> << [path |-> APP_DIR,
                              limit |-> DEFAULT_MAX_FILES_PER_FOLDER,
                              lines |-> DEFAULT_LINES_PER_FILE] >>,
                max |-> DEFAULT_LINES_PER_FILE]
          ELSE [roots |-> roots, max |-> MaxLines(roots, 1)]

----------------------------------------------------------------------------
(* Selection of the files of one folder (scan_and_dump, count_expected_files) *)

\* os.stat(fp): the three timestamps of the file
Stat(file) == [st_mtime |-> file.mtime, st_ctime |-> 0, st_atime |-> 100 - file.mtime]

get_sort_key(st) ==
    IF SORT_BY = "created" THEN st.st_ctime
    ELSE IF SORT_BY = "accessed" THEN st.st_atime
    ELSE st.st_mtime

Item(file) == [file |-> file, key |-> get_sort_key(Stat(file))]

\* reverse=SORT_DESC: which key goes first
Ahead(a, b) == IF SORT_DESC THEN a > b ELSE a < b

\* list.sort(key=..., reverse=SORT_DESC) is stable: the place of an item is
\* one more than the number of items whose key goes first, plus the number
\* of items with the same key that stand before it in the list.
SortItems(its) ==
    LET place == [i \in DOMAIN its |->
                    1 + Cardinality({j \in DOMAIN its : Ahead(its[j].key, its[i].key)})
                      + Cardinality({j \in 1..(i - 1) : its[j].key = its[i].key})]
    IN  [p \in DOMAIN its |-> its[CHOOSE i \in DOMAIN its : place[i] = p]]

\* candidates: names with an allowed suffix; items: those os.stat accepts
Rankable(files) ==
    LET candidates == SelectSeq(files, LAMBDA x : Lower(x.suffix) \in ALLOWED_EXTS)
        statted == SelectSeq(candidates, LAMBDA x : x.statOk)
    IN  [i \in 1..Len(statted) |-> Item(statted[i])]

Cut_mut_nocut(its, limit) == its

Cut(its, limit) ==
    IF limit > 0 /\ Len(its) > limit THEN SubSeq(its, 1, limit) ELSE its

SelectItems_mut_nosort(files, limit) == Cut(Rankable(files), limit)

SelectItems(files, limit) == Cut(SortItems(Rankable(files)), limit)

count_expected_files(roots) ==
    LET CountHere(d, limit) ==
            LET n == Len(Rankable(FS[d].files))
            IN  IF limit <= 0 THEN n ELSE Min(limit, n)
        RECURSIVE SumDirs(_, _)
        SumDirs(ds, limit) ==
            IF ds = <<>> THEN 0 ELSE CountHere(Head(ds), limit) + SumDirs(Tail(ds), limit)
        RECURSIVE SumRoots(_)
        SumRoots(i) ==
            IF i > Len(roots) THEN 0
            ELSE SumDirs(Walk(roots[i].path), roots[i].limit) + SumRoots(i + 1)
    IN  SumRoots(1)


----------------------------------------------------------------------------
(* main and scan_and_dump, one step per statement that matters *)

\* The rows a settings sheet may hold.
SettingRows ==
    { Row("A", Num(20), Num(30)),
      Row("A", Num(15), NoneCellS),
      Row(" C ", Num(0), Num(70)),
      Row("C", BadCellS, Num(-10)),
      Row("nodir", NoneCellS, Num(20)),
      Row("  ", BlankCellS, BlankCellS) }

ScanStart ==
    /\ roots_cfg = <<>>
    /\ global_lines_max = 0
    /\ pc = "main"
    /\ rootIdx = 0
    /\ walk = <<>>
    /\ curDir = ""
    /\ items = <<>>
    /\ selected = <<>>
    /\ cur = NoFile
    /\ lines = <<>>
    /\ out = <<>>
    /\ total_written = 0
    /\ skipped = 0
    /\ handled = <<>>
    /\ last = NoLast
    /\ bar = NoBar
    /\ f = "unopened"
    /\ call = NoCall
    /\ ret = Pending

\* The large run: one root, the folder of BigDirFiles files, one line per file.
BigSheets == { <<Row("B", Num(v), Num(10))>> : v \in {0, -10, 1010} }

Start(sheets, libs, spent) ==
    /\ settings \in sheets
    /\ tqdmAvail \in BOOLEAN
    /\ xlrdAvail \in libs
    /\ faults = spent
    /\ ScanStart

Init == Start(SeqsUpTo(SettingRows, MaxSettingsRows), BOOLEAN, 0)

\* In the large run the environment has one exception left to raise.
InitBig == Start(BigSheets, {TRUE}, MaxFaults - 1)

\* What the statistical detectors answer for a file: ASCII for pure ASCII
\* content, nothing otherwise.
DetectorAnswer(file) ==
    IF \A i \in 1..Len(file.lines) : file.lines[i] = "ascii" THEN "ascii" ELSE NoneEnc

\* openpyxl is present once read_settings has returned (it exits otherwise).
EnvFor(file) ==
    [cn |-> DetectorAnswer(file), cd |-> NoneEnc, openpyxl |-> TRUE, xlrd |-> xlrdAvail]

Headers(n) == [path |-> "File Path", cells |-> [i \in 1..n |-> <<"Line", ToString(i)>>]]

\* lines + [""] * (global_lines_max - len(lines)), or lines[:global_lines_max]
Normalize_mut_asis(ls, n) == ls

Normalize(ls, n) ==
    IF Len(ls) < n THEN ls \o EmptyStrings(n - Len(ls))
    ELSE IF Len(ls) > n THEN SubSeq(ls, 1, n)
    ELSE ls

IsSentinel(ls) == Len(ls) = 1 /\ ls[1] \in Sentinels

\* How a file whose row was written, or whose handling raised, is counted.
Counted_mut_sentinel(ls, raised) ==
    IF raised \/ IsSentinel(ls) THEN "skipped" ELSE "written"

Counted(ls, raised) == IF raised THEN "skipped" ELSE "written"

\* main(): roots_cfg, global_lines_max = read_settings(app_dir)
ReadSettings ==
    /\ pc = "main"
    /\ roots_cfg' = read_settings(settings).roots
    /\ global_lines_max' = read_settings(settings).max
    /\ pc' = "bar"
    /\ UNCHANGED <<settings, tqdmAvail, xlrdAvail, rootIdx, walk, curDir, items,
                   selected, cur, lines, out, total_written, skipped, handled,
                   last, bar, f, faults, call, ret>>

\* bar = tqdm(total=count_expected_files(roots_cfg), ...) if tqdm is there
CreateBar ==
    /\ pc = "bar"
    /\ bar' = IF tqdmAvail
                THEN [state |-> "open", total |-> count_expected_files(roots_cfg), n |-> 0]
                ELSE NoBar
    /\ pc' = "open"
    /\ UNCHANGED <<settings, tqdmAvail, xlrdAvail, roots_cfg, global_lines_max,
                   rootIdx, walk, curDir, items, selected, cur, lines, out,
                   total_written, skipped, handled, last, f, faults, call, ret>>

\* with open(out_csv, "w", ...) as f
OpenOutput ==
    /\ pc = "open"
    /\ f' = "open"
    /\ pc' = "header"
    /\ UNCHANGED <<settings, tqdmAvail, xlrdAvail, roots_cfg, global_lines_max,
                   rootIdx, walk, curDir, items, selected, cur, lines, out,
                   total_written, skipped, handled, last, bar, faults, call, ret>>

\* open() raises (no permission, disk full): the error leaves scan_and_dump
OpenFails ==
    /\ pc = "open"
    /\ faults < MaxFaults
    /\ faults' = faults + 1
    /\ pc' = "error"
    /\ UNCHANGED <<settings, tqdmAvail, xlrdAvail, roots_cfg, global_lines_max,
                   rootIdx, walk, curDir, items, selected, cur, lines, out,
                   total_written, skipped, handled, last, bar, f, call, ret>>

\* writer.writerow(headers)
WriteHeader ==
    /\ pc = "header"
    /\ out' = <<Headers(global_lines_max)>>
    /\ pc' = "root"
    /\ UNCHANGED <<settings, tqdmAvail, xlrdAvail, roots_cfg, global_lines_max,
                   rootIdx, walk, curDir, items, selected, cur, lines,
                   total_written, skipped, handled, last, bar, f, faults, call, ret>>

\* writer.writerow(headers) raises: the with block closes f, the error leaves
HeaderFails ==
    /\ pc = "header"
    /\ faults < MaxFaults
    /\ faults' = faults + 1
    /\ f' = "closed"
    /\ pc' = "error"
    /\ UNCHANGED <<settings, tqdmAvail, xlrdAvail, roots_cfg, global_lines_max,
                   rootIdx, walk, curDir, items, selected, cur, lines, out,
                   total_written, skipped, handled, last, bar, call, ret>>

\* for base, per_folder_limit, lines_per_file in roots_cfg: os.walk(base, ...)
NextRoot ==
    /\ pc = "root"
    /\ rootIdx < Len(roots_cfg)
    /\ rootIdx' = rootIdx + 1
    /\ walk' = Walk(roots_cfg[rootIdx + 1].path)
    /\ pc' = "dir"
    /\ UNCHANGED <<settings, tqdmAvail, xlrdAvail, roots_cfg, global_lines_max,
                   curDir, items, selected, cur, lines, out, total_written,
                   skipped, handled, last, bar, f, faults, call, ret>>

\* the roots are exhausted: the with block ends and closes f
LeaveWith ==
    /\ pc = "root"
    /\ rootIdx = Len(roots_cfg)
    /\ f' = "closed"
    /\ pc' = "close_bar"
    /\ UNCHANGED <<settings, tqdmAvail, xlrdAvail, roots_cfg, global_lines_max,
                   rootIdx, walk, curDir, items, selected, cur, lines, out,
                   total_written, skipped, handled, last, bar, faults, call, ret>>

\* for root, _dirs, files in os.walk(...): filter, stat, sort, cut
NextDir ==
    /\ pc = "dir"
    /\ walk # <<>>
    /\ curDir' = Head(walk)
    /\ walk' = Tail(walk)
    /\ items' = SelectItems(FS[Head(walk)].files, roots_cfg[rootIdx].limit)
    /\ selected' = items'
    /\ pc' = "file"
    /\ UNCHANGED <<settings, tqdmAvail, xlrdAvail, roots_cfg, global_lines_max,
                   rootIdx, cur, lines, out, total_written, skipped, handled,
                   last, bar, f, faults, call, ret>>

WalkDone ==
    /\ pc = "dir"
    /\ walk = <<>>
    /\ pc' = "root"
    /\ UNCHANGED <<settings, tqdmAvail, xlrdAvail, roots_cfg, global_lines_max,
                   rootIdx, walk, curDir, items, selected, cur, lines, out,
                   total_written, skipped, handled, last, bar, f, faults, call, ret>>

\* for name, _k in items: the body is entered for the next file
NextFile ==
    /\ pc = "file"
    /\ items # <<>>
    /\ cur' = Head(items).file
    /\ items' = Tail(items)
    /\ handled' = Append(handled, [root |-> rootIdx, dir |-> curDir, name |-> Head(items).file.name])
    /\ pc' = "extract"
    /\ UNCHANGED <<settings, tqdmAvail, xlrdAvail, roots_cfg, global_lines_max,
                   rootIdx, walk, curDir, selected, lines, out, total_written,
                   skipped, last, bar, f, faults, call, ret>>

FilesDone ==
    /\ pc = "file"
    /\ items = <<>>
    /\ pc' = "dir"
    /\ UNCHANGED <<settings, tqdmAvail, xlrdAvail, roots_cfg, global_lines_max,
                   rootIdx, walk, curDir, items, selected, cur, lines, out,
                   total_written, skipped, handled, last, bar, f, faults, call, ret>>

\* lines = get_first_lines_for_file(fp, lines_per_file); an exception it
\* raised would be caught by the handler of the loop body
Extract ==
    /\ pc = "extract"
    /\ LET r == get_first_lines_for_file(cur, roots_cfg[rootIdx].lines, EnvFor(cur))
       IN  IF r.raised
             THEN /\ skipped' = skipped + 1
                  /\ last' = [sentinel |-> FALSE, fault |-> TRUE, counted |-> "skipped"]
                  /\ pc' = "finally"
                  /\ UNCHANGED lines
             ELSE /\ lines' = r.val
                  /\ pc' = "write"
                  /\ UNCHANGED <<skipped, last>>
    /\ UNCHANGED <<settings, tqdmAvail, xlrdAvail, roots_cfg, global_lines_max,
                   rootIdx, walk, curDir, items, selected, cur, out,
                   total_written, handled, bar, f, faults, call, ret>>

\* normalise to global_lines_max, writer.writerow, total_written += 1
WriteRow ==
    /\ pc = "write"
    /\ out' = Append(out, [path |-> curDir \o "/" \o cur.name,
                           cells |-> Normalize(lines, global_lines_max)])
    /\ LET c == Counted(lines, FALSE)
       IN  /\ total_written' = IF c = "written" THEN total_written + 1 ELSE total_written
           /\ skipped' = IF c = "skipped" THEN skipped + 1 ELSE skipped
           /\ last' = [sentinel |-> IsSentinel(lines), fault |-> FALSE, counted |-> c]
    /\ pc' = "finally"
    /\ UNCHANGED <<settings, tqdmAvail, xlrdAvail, roots_cfg, global_lines_max,
                   rootIdx, walk, curDir, items, selected, cur, lines,
                   handled, bar, f, faults, call, ret>>

\* writer.writerow raises an Exception (an I/O error): except: skipped += 1
WriteFails ==
    /\ pc = "write"
    /\ faults < MaxFaults
    /\ faults' = faults + 1
    /\ LET c == Counted(lines, TRUE)
       IN  /\ total_written' = IF c = "written" THEN total_written + 1 ELSE total_written
           /\ skipped' = IF c = "skipped" THEN skipped + 1 ELSE skipped
           /\ last' = [sentinel |-> IsSentinel(lines), fault |-> TRUE, counted |-> c]
    /\ pc' = "finally"
    /\ UNCHANGED <<settings, tqdmAvail, xlrdAvail, roots_cfg, global_lines_max,
                   rootIdx, walk, curDir, items, selected, cur, lines, out,
                   handled, bar, f, call, ret>>

\* finally: bar.update(1)
Finally ==
    /\ pc = "finally"
    /\ bar' = IF bar.state = "open" THEN [bar EXCEPT !.n = @ + 1] ELSE bar
    /\ pc' = "file"
    /\ UNCHANGED <<settings, tqdmAvail, xlrdAvail, roots_cfg, global_lines_max,
                   rootIdx, walk, curDir, items, selected, cur, lines, out,
                   total_written, skipped, handled, last, f, faults, call, ret>>

\* What is done to the progress handle when an exception leaves the with
\* block: bar.close() stands after the block, so nothing.
BarOnUnwind(b) == b

\* What is done to it on the normal path: bar.close()
BarOnReturn(b) == IF b.state = "open" THEN [b EXCEPT !.state = "closed"] ELSE b

\* KeyboardInterrupt while a file is handled: it is no Exception, so the
\* handler of the loop body lets it pass; finally updates the bar, the with
\* block closes f, and the interrupt reaches __main__.
Interrupt ==
    /\ pc \in {"extract", "write"}
    /\ bar' = BarOnUnwind(IF bar.state = "open" THEN [bar EXCEPT !.n = @ + 1] ELSE bar)
    /\ f' = "closed"
    /\ pc' = "interrupted"
    /\ UNCHANGED <<settings, tqdmAvail, xlrdAvail, roots_cfg, global_lines_max,
                   rootIdx, walk, curDir, items, selected, cur, lines, out,
                   total_written, skipped, handled, last, faults, call, ret>>

\* if bar is not None: bar.close(); the summary is printed
CloseBar ==
    /\ pc = "close_bar"
    /\ bar' = BarOnReturn(bar)
    /\ pc' = "done"
    /\ UNCHANGED <<settings, tqdmAvail, xlrdAvail, roots_cfg, global_lines_max,
                   rootIdx, walk, curDir, items, selected, cur, lines, out,
                   total_written, skipped, handled, last, f, faults, call, ret>>

Next ==
    \/ ReadSettings
    \/ CreateBar
    \/ OpenOutput
    \/ OpenFails
    \/ WriteHeader
    \/ HeaderFails
    \/ NextRoot
    \/ LeaveWith
    \/ NextDir
    \/ WalkDone
    \/ NextFile
    \/ FilesDone
    \/ Extract
    \/ WriteRow
    \/ WriteFails
    \/ Finally
    \/ Interrupt
    \/ CloseBar

Spec == Init /\ [][Next]_vars

SpecBig == InitBig /\ [][Next]_vars

----------------------------------------------------------------------------
(* What the claims speak of *)

attempted == Len(handled)

\* The data rows written so far (the header is out[1]).
DataRows == IF out = <<>> THEN <<>> ELSE Tail(out)

\* The maximum linesPerFile over all roots, from the roots themselves.
GlobalMaxLines ==
    CHOOSE m \in {roots_cfg[i].lines : i \in DOMAIN roots_cfg} :
        \A i \in DOMAIN roots_cfg : roots_cfg[i].lines <= m

Scanning == pc \in {"file", "extract", "write", "finally"}

\* The files of the current folder that have an allowed extension
\* (case-insensitive) and readable metadata.
Matching ==
    {x \in {FS[curDir].files[i] : i \in DOMAIN FS[curDir].files} :
        /\ \E e \in ALLOWED_EXTS : Lower(x.suffix) = e
        /\ x.statOk}

\* The files of folder d handled under root r, in the order handled.
HandledIn(r, d) ==
    SelectSeq(handled, LAMBDA h : h.root = r /\ h.dir = d)

----------------------------------------------------------------------------
(* C1: every data row has exactly GlobalMaxLines line cells after the file *)
(* path, GlobalMaxLines being the maximum linesPerFile over all roots: the *)
(* extraction result is right-padded with empty strings, or truncated,     *)
(* whichever root the file came from.                                      *)

C1_FixedWidth ==
    /\ \A i \in DOMAIN DataRows : Len(DataRows[i].cells) = GlobalMaxLines
    /\ (pc = "finally" /\ last.counted = "written") =>
          LET cells == out[Len(out)].cells
          IN  \A j \in 1..GlobalMaxLines :
                 cells[j] = IF j <= Len(lines) THEN lines[j] ELSE <<>>

C1_Witness ==
    /\ pc = "finally"
    /\ last.counted = "written"
    /\ Len(roots_cfg) = 2
    /\ roots_cfg[rootIdx].lines = 3
    /\ GlobalMaxLines = 7
    /\ Len(lines) = 3
    /\ Len(out[Len(out)].cells) = 7
    /\ out[Len(out)].cells[4] = <<>>

----------------------------------------------------------------------------
(* C2: under a root with per-folder cap k > 0, the number of files of any  *)
(* single folder that are handled never exceeds k; the cap is per folder,  *)
(* not for the whole tree.                                                 *)

C2_PerFolderCap ==
    \A r \in DOMAIN roots_cfg : \A d \in DirNames :
        roots_cfg[r].limit > 0 => Len(HandledIn(r, d)) <= roots_cfg[r].limit

C2_Witness ==
    /\ Scanning
    /\ roots_cfg[rootIdx].limit = 1
    /\ Cardinality(Matching) > 1
    /\ Len(HandledIn(rootIdx, "A")) = 1
    /\ Len(HandledIn(rootIdx, "A/s")) = 1

----------------------------------------------------------------------------
(* C3: the files selected in a folder are the first min(k, m) of its m     *)
(* files with an allowed extension and readable metadata, by modification  *)
(* time descending, and they are handled in that order; a file with another*)
(* extension is never selected, even if it is the newest.                  *)

SelectedFiles == {selected[i].file : i \in DOMAIN selected}

C3_NewestFirst ==
    Scanning =>
        /\ Len(selected) = Min(roots_cfg[rootIdx].limit, Cardinality(Matching))
        /\ SelectedFiles \subseteq Matching
        /\ Cardinality(SelectedFiles) = Len(selected)
        /\ \A i, j \in DOMAIN selected :
              i < j => selected[i].file.mtime >= selected[j].file.mtime
        /\ \A x \in Matching \ SelectedFiles : \A y \in SelectedFiles :
              x.mtime <= y.mtime
        /\ LET h == HandledIn(rootIdx, curDir)
               k == Len(selected) - Len(items)
           IN  /\ Len(h) >= k
               /\ \A i \in 1..k : h[Len(h) - k + i].name = selected[i].file.name

C3_Witness ==
    /\ pc = "finally"
    /\ curDir = "A"
    /\ roots_cfg[rootIdx].limit = 2
    /\ items = <<>>
    /\ [i \in DOMAIN selected |-> selected[i].file.mtime] = <<9, 5>>
    /\ \E x \in DOMAIN FS["A"].files :
          FS["A"].files[x].suffix = ".txt" /\ FS["A"].files[x].mtime > 9

----------------------------------------------------------------------------
(* C4 as stated: under a root whose configured MaxFilesPerFolder is <= 0,  *)
(* all matching files of every folder are selected, however many.          *)

UsableRows == SelectSeq(settings, RowUsable)

ConfiguredUnbounded(r) ==
    /\ r \in DOMAIN UsableRows
    /\ UsableRows[r].limit.k = "num"
    /\ IntOfFloat(UsableRows[r].limit.v10) <= 0

C4_Original ==
    (Scanning /\ ConfiguredUnbounded(rootIdx)) => SelectedFiles = Matching

----------------------------------------------------------------------------
(* C6: each file is counted once: between two files total_written +        *)
(* skipped is the number of files attempted; total_written is the number   *)
(* of data rows written; a file whose extraction gave a sentinel row is    *)
(* counted as written, and the run goes on.                                *)

BetweenFiles == pc \in {"root", "dir", "file", "close_bar", "done"}

C6_Counters ==
    /\ BetweenFiles => total_written + skipped = attempted
    /\ total_written = Len(DataRows)
    /\ (last.sentinel /\ ~last.fault) => last.counted = "written"
    /\ pc = "error" => attempted = 0

C6_Witness ==
    /\ pc = "file"
    /\ last.sentinel
    /\ last.counted = "written"
    /\ cur.name = "s2"
    /\ skipped = 1
    /\ total_written = 3
    /\ attempted = 4

----------------------------------------------------------------------------
(* C7 as stated: on every exit path of scan_and_dump (normal completion,   *)
(* an interrupt while a file is handled, an error outside the per-file     *)
(* handler) the output stream and the progress handle, if created, have    *)
(* been closed when control leaves the function.                           *)

Left == pc \in {"done", "interrupted", "error"}

C7_Original == Left => (f # "open" /\ bar.state # "open")


----------------------------------------------------------------------------
(* Single calls of the extraction functions on bounded inputs *)

Bytes == {0, 65, 187, 191, 239, 254, 255}
CnGuesses == {"raise", NoneEnc, "Ascii", "bogus"}
CdGuesses == {NoneEnc, "cp1251"}

\* CSV files: byte-oriented text with or without a UTF-8 mark, UTF-16 text
\* with or without its mark, UTF-32 text with its mark.
CsvContents ==
    {[bom |-> b, lines |-> l] :
        b \in {"none", "utf8"},
        l \in SeqsUpTo({"ascii", "utf8", "cp1251", "x98"}, MaxFileLines)}
    \cup {[bom |-> b, lines |-> l] :
        b \in {"none", "utf16le"}, l \in SeqsUpTo({"utf16"}, MaxFileLines)}
    \cup {[bom |-> "utf32le", lines |-> l] : l \in SeqsUpTo({"utf32"}, MaxFileLines)}

\* A file that cannot be opened is given a short content only: none of it is read.
CsvFiles ==
    {[name |-> "c", suffix |-> ".csv", mtime |-> 0, statOk |-> TRUE, readable |-> r,
      bom |-> c.bom, lines |-> c.lines, opens |-> FALSE, rows |-> <<>>] :
        r \in BOOLEAN, c \in {x \in CsvContents : Len(x.lines) <= 1}}
    \cup
    {[name |-> "c", suffix |-> ".csv", mtime |-> 0, statOk |-> TRUE, readable |-> TRUE,
      bom |-> c.bom, lines |-> c.lines, opens |-> FALSE, rows |-> <<>>] :
        c \in CsvContents}

SheetRowSet ==
    { <<Cell(<<"a">>)>>,
      <<Cell(<<"a">>), NoneCell>>,
      <<NoneCell, Cell(<<"b", " ">>)>>,
      <<NoneCell>> }

SheetFiles(suffixes) ==
    {[name |-> "s", suffix |-> x, mtime |-> 0, statOk |-> TRUE, readable |-> TRUE,
      bom |-> "none", lines |-> <<>>, opens |-> o, rows |-> rs] :
        x \in suffixes, o \in BOOLEAN, rs \in SeqsUpTo(SheetRowSet, MaxSheetRows)}

OtherFiles ==
    {[name |-> "o", suffix |-> x, mtime |-> 0, statOk |-> TRUE, readable |-> r,
      bom |-> "none", lines |-> <<"ascii">>, opens |-> FALSE, rows |-> <<>>] :
        x \in {".txt", "", ".TXT"}, r \in BOOLEAN}

DetectCalls ==
    {[fn |-> "detect_encoding", file |-> [readable |-> TRUE, data |-> d], cn |-> a, cd |-> b] :
        d \in SeqsUpTo(Bytes, MaxData), a \in {"raise", "Ascii"}, b \in CdGuesses}
    \cup
    {[fn |-> "detect_encoding", file |-> [readable |-> FALSE, data |-> <<>>], cn |-> a, cd |-> b] :
        a \in CnGuesses, b \in CdGuesses}

CsvCalls ==
    {[fn |-> "read_csv_first_lines", file |-> fl, n |-> k, cn |-> a, cd |-> b] :
        fl \in CsvFiles, k \in 0..MaxN, a \in CnGuesses, b \in CdGuesses}

XlsxCalls ==
    {[fn |-> "read_xlsx_first_rows", file |-> fl, n |-> k, openpyxl |-> a] :
        fl \in SheetFiles({".xlsx"}), k \in 1..MaxN, a \in BOOLEAN}

XlsCalls ==
    {[fn |-> "read_xls_first_rows", file |-> fl, n |-> k, xlrd |-> a] :
        fl \in SheetFiles({".xls"}), k \in 1..MaxN, a \in BOOLEAN}

GetCalls ==
    {[fn |-> "get_first_lines_for_file", file |-> fl, n |-> k,
      env |-> [cn |-> a, cd |-> NoneEnc, openpyxl |-> o, xlrd |-> x]] :
        fl \in {[c EXCEPT !.suffix = x] : c \in {y \in CsvFiles : Len(y.lines) <= 1},
                                             x \in {".csv", ".CSV"}}
               \cup {c \in SheetFiles({".xlsx", ".XLSX", ".xls", ".XLS"}) : Len(c.rows) <= 1}
               \cup OtherFiles,
        k \in 1..MaxN, a \in {NoneEnc, "bogus"}, o \in BOOLEAN, x \in BOOLEAN}

InitFn ==
    /\ ScanIdle
    /\ call \in DetectCalls \cup CsvCalls \cup XlsxCalls \cup XlsCalls \cup GetCalls
    /\ ret = Pending

Return(v) ==
    /\ ~ret.done
    /\ ret' = [done |-> TRUE, res |-> v]
    /\ UNCHANGED <<call, scanVars>>

CallDetectEncoding ==
    /\ call.fn = "detect_encoding"
    /\ Return(detect_encoding(call.file, call.cn, call.cd))

CallReadCsv ==
    /\ call.fn = "read_csv_first_lines"
    /\ Return(read_csv_first_lines(call.file, call.n, call.cn, call.cd))

CallReadXlsx ==
    /\ call.fn = "read_xlsx_first_rows"
    /\ Return(read_xlsx_first_rows(call.file, call.n, call.openpyxl))

CallReadXls ==
    /\ call.fn = "read_xls_first_rows"
    /\ Return(read_xls_first_rows(call.file, call.n, call.xlrd))

CallGetFirstLines ==
    /\ call.fn = "get_first_lines_for_file"
    /\ Return(get_first_lines_for_file(call.file, call.n, call.env))

NextFn ==
    \/ CallDetectEncoding
    \/ CallReadCsv
    \/ CallReadXlsx
    \/ CallReadXls
    \/ CallGetFirstLines

SpecFn == InitFn /\ [][NextFn]_vars

Returned(fn) == ret.done /\ call.fn = fn

----------------------------------------------------------------------------
(* C9: detect_encoding decides by byte-order mark before any detector's    *)
(* guess: a readable prefix starting with EF BB BF yields utf-8-sig, one   *)
(* starting with a UTF-32 mark (FF FE 00 00 or 00 00 FE FF) yields utf-32  *)
(* and never utf-16, and one starting with FF FE or FE FF that is not a    *)
(* UTF-32 mark yields utf-16.                                              *)

HasUtf32Bom(data) == StartsWith(data, BOM_UTF32_LE) \/ StartsWith(data, BOM_UTF32_BE)
HasUtf16Bom(data) == StartsWith(data, BOM_UTF16_LE) \/ StartsWith(data, BOM_UTF16_BE)

C9_BomFirst ==
    (Returned("detect_encoding") /\ call.file.readable) =>
        /\ StartsWith(call.file.data, BOM_UTF8) => ret.res = "utf-8-sig"
        /\ HasUtf32Bom(call.file.data) => ret.res = "utf-32"
        /\ (HasUtf16Bom(call.file.data) /\ ~HasUtf32Bom(call.file.data))
              => ret.res = "utf-16"

C9_Witness ==
    /\ Returned("detect_encoding")
    /\ call.file.readable
    /\ call.file.data = BOM_UTF32_LE
    /\ call.cn = "Ascii"
    /\ ret.res = "utf-32"

----------------------------------------------------------------------------
(* C5 as stated: a workbook that opens, with r rows on its first sheet,    *)
(* gives exactly min(r, n) strings for every r >= 0 and n >= 1.            *)

SheetOpened ==
    \/ Returned("read_xlsx_first_rows") /\ call.openpyxl /\ call.file.opens
    \/ Returned("read_xls_first_rows") /\ call.xlrd /\ call.file.opens

C5_Original ==
    SheetOpened => Len(ret.res.val) = Min(Len(call.file.rows), call.n)

(* C5 amended: for r >= 1 the result has exactly min(r, n) strings (r of   *)
(* them when r < n, no padding); for r = 0 it has n empty strings.         *)

C5_Amended ==
    SheetOpened =>
        /\ ~ret.res.raised
        /\ Len(call.file.rows) >= 1 =>
              Len(ret.res.val) = Min(Len(call.file.rows), call.n)
        /\ Len(call.file.rows) = 0 => ret.res.val = [i \in 1..call.n |-> <<>>]

C5_Witness ==
    /\ SheetOpened
    /\ call.fn = "read_xlsx_first_rows"
    /\ Len(call.file.rows) = 2
    /\ call.n = 3
    /\ Len(ret.res.val) = 2

----------------------------------------------------------------------------
(* C8: get_first_lines_for_file never raises; an unsupported extension, an *)
(* unavailable spreadsheet reader, a reader that throws and a text file    *)
(* that cannot be opened each give a list of one sentinel string.          *)

C8_NeverRaises ==
    Returned("get_first_lines_for_file") =>
        LET ext == Lower(call.file.suffix)
            e == call.env
        IN  /\ ~ret.res.raised
            /\ ext \notin ALLOWED_EXTS => ret.res.val = <<UNSUPPORTED>>
            /\ (ext = ".xls" /\ ~e.xlrd) => ret.res.val = <<XLRD_MISSING>>
            /\ (ext = ".xls" /\ e.xlrd /\ ~call.file.opens) => ret.res.val = <<XLS_SENTINEL>>
            /\ (ext = ".xlsx" /\ (~e.openpyxl \/ ~call.file.opens))
                  => ret.res.val = <<XLSX_SENTINEL>>
            /\ (ext = ".csv" /\ ~call.file.readable) => ret.res.val = <<CSV_SENTINEL>>

C8_Witness ==
    /\ Returned("get_first_lines_for_file")
    /\ call.file.suffix = ".XLSX"
    /\ call.env.openpyxl
    /\ ~call.file.opens
    /\ ret.res = Ok(<<XLSX_SENTINEL>>)

----------------------------------------------------------------------------
(* C10 as stated: the result comes from the first candidate of [sniffed,   *)
(* utf-8-sig, cp1251, utf-16, latin1] that strictly decodes the first n    *)
(* lines of the file; lines after the first n play no part.                *)

DecodesFirst(file, enc, n) ==
    /\ enc \in KnownCodecs
    /\ \A i \in 1..Min(Max(n, 0), Len(file.lines)) : LineDecodes(file, enc, i)

RECURSIVE FirstDecoding(_, _, _, _)
FirstDecoding(file, cands, n, i) ==
    IF i > Len(cands) THEN 0
    ELSE IF DecodesFirst(file, cands[i], n) THEN i
    ELSE FirstDecoding(file, cands, n, i + 1)

C10_Original ==
    (Returned("read_csv_first_lines") /\ call.file.readable) =>
        LET cands == Candidates(Sniffed(call.file, call.cn, call.cd))
            w == FirstDecoding(call.file, cands, call.n, 1)
            k == Min(Max(call.n, 0), Len(call.file.lines))
        IN  /\ w > 0
            /\ ret.res = Ok([i \in 1..k |-> Decoded(cands[w], call.file.lines[i])])

====
